---- MODULE Spec2Model ----
(***************************************************************************)
(* Model of the UI-state store, the canvas/dedup controller and the        *)
(* component validator of the dynamic UI generator                          *)
(* (apps/web/src/app/page.tsx, apps/web/src/schemas/ui-schemas.ts,          *)
(*  apps/web/src/components/JSONRenderer.tsx, apps/agent/src/agent.ts).     *)
(*                                                                         *)
(* JavaScript values are modelled as tagged records [k |-> kind, v |-> x]  *)
(* where the code inspects their type (tool results, patch data); plain    *)
(* objects whose shape the code never inspects (the sections of uiState)   *)
(* are functions from keys to values.                                      *)
(***************************************************************************)
EXTENDS Integers, Sequences, FiniteSets, TLC

VARIABLES
    uiState,           \* state.uiState of useCoAgent: components, formData, appData, lastUpdate (+ any other key written)
    currentStateRef,   \* currentStateRef.current
    canvasComponents,  \* the canvasComponents list (useState)
    processedResults,  \* processedResults.current: Set of result hashes
    timers,            \* pending setTimeout(.., 0) callbacks of addToCanvas, in creation order
    now,               \* the value Date.now() returns
    response,          \* what the last useCopilotAction handler returned to the agent
    events,            \* number of requests (agent, user, tool, clock) handled so far
    admitCalls,        \* per tool result, the number of addToCanvas calls made with it so far
    local,             \* the useState values of the mounted components: a form's formData, a workflow's currentStep
    clearedWhilePending \* the canvas was last cleared with a callback pending, and addToCanvas was not called since

vars == <<uiState, currentStateRef, canvasComponents, processedResults, timers, now, response,
          events, admitCalls, local, clearedWhilePending>>

(***************************************************************************)
(* Bounds of the model.                                                    *)
(***************************************************************************)
MaxEvents == 3

StartTime == 1

(***************************************************************************)
(* JavaScript values.                                                      *)
(***************************************************************************)
Undefined == [k |-> "undefined"]
Null      == [k |-> "null"]
Str(s)    == [k |-> "string", v |-> s]
Num(n)    == [k |-> "number", v |-> n]
Bool(b)   == [k |-> "boolean", v |-> b]
Arr(s)    == [k |-> "array", v |-> s]
Obj(f)    == [k |-> "object", v |-> f]

EmptyObj == [x \in {} |-> Undefined]

\* { ...a, ...b }
Spread(a, b) == [x \in DOMAIN a \cup DOMAIN b |-> IF x \in DOMAIN b THEN b[x] ELSE a[x]]

\* JSON.parse(JSON.stringify(x)): a key whose value is undefined is dropped,
\* undefined inside an array becomes null
RECURSIVE JsonStringifyParse(_)
JsonStringifyParse(x) ==
    CASE x.k = "object" ->
            Obj([f \in {g \in DOMAIN x.v : x.v[g].k # "undefined"} |-> JsonStringifyParse(x.v[f])])
      [] x.k = "array"  ->
            Arr([i \in 1..Len(x.v) |->
                    IF x.v[i].k = "undefined" THEN Null ELSE JsonStringifyParse(x.v[i])])
      [] OTHER          -> x

(***************************************************************************)
(* The shared document (page.tsx, YourMainContent).                        *)
(***************************************************************************)
SectionKeys == {"components", "formData", "appData"}

InitialUIState(t) ==
    [components |-> EmptyObj, formData |-> EmptyObj, appData |-> EmptyObj, lastUpdate |-> t]

\* currentUIState[stateKey] as Record<string, any> || {}
\* (a missing key is undefined; the number under lastUpdate spreads to nothing)
SectionOrEmpty(ui, stateKey) ==
    IF stateKey \in DOMAIN ui /\ stateKey # "lastUpdate" THEN ui[stateKey] ELSE EmptyObj

\* typeof data === 'object' && data !== null ? data : {}
DataOrEmpty(data) == IF data.k = "object" THEN data.v ELSE EmptyObj

\* MergeSection merging the old and new entry of a key field by field
MergeSectionDeep(ui, stateKey, data, t) ==
    LET old    == SectionOrEmpty(ui, stateKey)
        new    == DataOrEmpty(data)
        merged == [x \in DOMAIN old \cup DOMAIN new |->
                      IF x \in DOMAIN old /\ x \in DOMAIN new THEN Spread(old[x], new[x])
                      ELSE IF x \in DOMAIN new THEN new[x] ELSE old[x]]
        keyed  == [x \in DOMAIN ui \cup {stateKey} |-> IF x = stateKey THEN merged ELSE ui[x]]
    IN  [x \in DOMAIN keyed \cup {"lastUpdate"} |-> IF x = "lastUpdate" THEN t ELSE keyed[x]]

\* MergeSection keeping the entry a key already has
MergeSectionFirstWins(ui, stateKey, data, t) ==
    LET merged == Spread(DataOrEmpty(data), SectionOrEmpty(ui, stateKey))
        keyed  == [x \in DOMAIN ui \cup {stateKey} |-> IF x = stateKey THEN merged ELSE ui[x]]
    IN  [x \in DOMAIN keyed \cup {"lastUpdate"} |-> IF x = "lastUpdate" THEN t ELSE keyed[x]]

\* MergeSection replacing the section by the patch
MergeSectionReplace(ui, stateKey, data, t) ==
    LET keyed == [x \in DOMAIN ui \cup {stateKey} |-> IF x = stateKey THEN DataOrEmpty(data) ELSE ui[x]]
    IN  [x \in DOMAIN keyed \cup {"lastUpdate"} |-> IF x = "lastUpdate" THEN t ELSE keyed[x]]

\* MergeSection starting from the default document instead of the current one
MergeSectionFromDefault(ui, stateKey, data, t) ==
    LET merged == Spread(SectionOrEmpty(ui, stateKey), DataOrEmpty(data))
        base   == InitialUIState(t)
    IN  [x \in DOMAIN base \cup {stateKey} |->
            IF x = "lastUpdate" THEN t ELSE IF x = stateKey THEN merged ELSE base[x]]

\* { ...currentUIState, [stateKey]: { ...section, ...data }, lastUpdate: Date.now() }
MergeSection(ui, stateKey, data, t) ==
    LET merged == Spread(SectionOrEmpty(ui, stateKey), DataOrEmpty(data))
        keyed  == [x \in DOMAIN ui \cup {stateKey} |-> IF x = stateKey THEN merged ELSE ui[x]]
    IN  [x \in DOMAIN keyed \cup {"lastUpdate"} |-> IF x = "lastUpdate" THEN t ELSE keyed[x]]

(***************************************************************************)
(* The schema combinators of zod that ui-schemas.ts uses, as data, and the *)
(* parse they drive.  Parse(schema, x) is [ok |-> TRUE, v |-> value] or    *)
(* [ok |-> FALSE]; an absent object key is parsed as Undefined.            *)
(***************************************************************************)
ZString        == [t |-> "string"]
ZNumber        == [t |-> "number", bounded |-> FALSE]
ZNumberIn(a,b) == [t |-> "number", bounded |-> TRUE, min |-> a, max |-> b]
ZBoolean       == [t |-> "boolean"]
ZAny           == [t |-> "any"]
ZLiteral(s)    == [t |-> "literal", value |-> s]
ZEnum(S)       == [t |-> "enum", values |-> S]
ZOptional(z)   == [t |-> "optional", inner |-> z]
ZDefault(z, d) == [t |-> "default", inner |-> z, value |-> d]
ZObject(shape) == [t |-> "object", shape |-> shape]
ZArray(z)      == [t |-> "array", element |-> z]
ZRecord(z)     == [t |-> "record", element |-> z]
ZUnion(zs)     == [t |-> "union", options |-> zs]

Ok(x) == [ok |-> TRUE, v |-> x]
Fail  == [ok |-> FALSE]

\* input[key] of a parsed object: undefined when the key is absent
Field(obj, key) == IF key \in DOMAIN obj THEN obj[key] ELSE Undefined

RECURSIVE Parse(_, _), ParseObject(_, _, _, _), ParseArray(_, _, _, _),
          ParseRecord(_, _, _, _), ParseUnion(_, _, _)

\* z.object(shape): every key of the shape is parsed from input[key]; keys the
\* shape does not name are stripped, keys that parse to undefined are left out
ParseObject(shape, input, todo, done) ==
    IF todo = {} THEN Ok(Obj(done))
    ELSE LET f == CHOOSE g \in todo : TRUE
             r == Parse(shape[f], Field(input, f))
         IN  IF ~r.ok THEN Fail
             ELSE ParseObject(shape, input, todo \ {f},
                              IF r.v.k = "undefined" THEN done ELSE (f :> r.v) @@ done)

\* z.array(element)
ParseArray(element, input, i, done) ==
    IF i > Len(input) THEN Ok(Arr(done))
    ELSE LET r == Parse(element, input[i])
         IN  IF ~r.ok THEN Fail ELSE ParseArray(element, input, i + 1, Append(done, r.v))

\* z.record(element)
ParseRecord(element, input, todo, done) ==
    IF todo = {} THEN Ok(Obj(done))
    ELSE LET f == CHOOSE g \in todo : TRUE
             r == Parse(element, input[f])
         IN  IF ~r.ok THEN Fail
             ELSE ParseRecord(element, input, todo \ {f}, (f :> r.v) @@ done)

\* z.union(options): the result of the first option that accepts the input
ParseUnion(options, x, i) ==
    IF i > Len(options) THEN Fail
    ELSE LET r == Parse(options[i], x)
         IN  IF r.ok THEN r ELSE ParseUnion(options, x, i + 1)

Parse(z, x) ==
    CASE z.t = "string"  -> IF x.k = "string" THEN Ok(x) ELSE Fail
      [] z.t = "number"  -> IF x.k = "number" /\ (z.bounded => (z.min <= x.v /\ x.v <= z.max))
                            THEN Ok(x) ELSE Fail
      [] z.t = "boolean" -> IF x.k = "boolean" THEN Ok(x) ELSE Fail
      [] z.t = "any"     -> Ok(x)
      [] z.t = "literal" -> IF x.k = "string" /\ x.v = z.value THEN Ok(x) ELSE Fail
      [] z.t = "enum"    -> IF x.k = "string" /\ x.v \in z.values THEN Ok(x) ELSE Fail
      [] z.t = "optional" -> IF x.k = "undefined" THEN Ok(Undefined) ELSE Parse(z.inner, x)
      [] z.t = "default" -> IF x.k = "undefined" THEN Parse(z.inner, z.value) ELSE Parse(z.inner, x)
      [] z.t = "object"  -> IF x.k # "object" THEN Fail
                            ELSE ParseObject(z.shape, x.v, DOMAIN z.shape, EmptyObj)
      [] z.t = "array"   -> IF x.k # "array" THEN Fail
                            ELSE ParseArray(z.element, x.v, 1, <<>>)
      [] z.t = "record"  -> IF x.k # "object" THEN Fail
                            ELSE ParseRecord(z.element, x.v, DOMAIN x.v, EmptyObj)
      [] z.t = "union"   -> ParseUnion(z.options, x, 1)

(***************************************************************************)
(* ui-schemas.ts                                                           *)
(***************************************************************************)
BaseComponentShape ==
    [id        |-> ZString,
     type      |-> ZString,
     title     |-> ZOptional(ZString),
     className |-> ZOptional(ZString),
     style     |-> ZOptional(ZRecord(ZString))]

\* BaseComponentSchema.extend({...})
Extend(shape) == ZObject(Spread(BaseComponentShape, shape))

WeatherComponentSchema ==
    Extend([type        |-> ZLiteral("weather"),
            location    |-> ZString,
            temperature |-> ZOptional(ZString),
            description |-> ZOptional(ZString),
            humidity    |-> ZOptional(ZString),
            windSpeed   |-> ZOptional(ZString),
            feelsLike   |-> ZOptional(ZString),
            icon        |-> ZOptional(ZString)])

DataVisualizationSchema ==
    Extend([type      |-> ZLiteral("dataVisualization"),
            chartType |-> ZDefault(ZOptional(ZEnum({"bar", "line", "pie", "table"})), Str("table")),
            data      |-> ZArray(ZObject([label |-> ZString,
                                          value |-> ZUnion(<<ZString, ZNumber>>),
                                          color |-> ZOptional(ZString)])),
            xAxis     |-> ZOptional(ZString),
            yAxis     |-> ZOptional(ZString)])

\* FormFieldSchema with required: z.boolean().optional()
FormFieldSchemaRequiredNoDefault ==
    ZObject([name        |-> ZString,
             type        |-> ZEnum({"text", "email", "password", "number", "textarea",
                                    "select", "checkbox", "radio"}),
             label       |-> ZOptional(ZString),
             placeholder |-> ZOptional(ZString),
             required    |-> ZOptional(ZBoolean),
             options     |-> ZOptional(ZArray(ZString)),
             validation  |-> ZOptional(ZObject([min     |-> ZOptional(ZNumber),
                                                max     |-> ZOptional(ZNumber),
                                                pattern |-> ZOptional(ZString),
                                                message |-> ZOptional(ZString)]))])

FormFieldSchema ==
    ZObject([name        |-> ZString,
             type        |-> ZEnum({"text", "email", "password", "number", "textarea",
                                    "select", "checkbox", "radio"}),
             label       |-> ZOptional(ZString),
             placeholder |-> ZOptional(ZString),
             required    |-> ZDefault(ZOptional(ZBoolean), Bool(FALSE)),
             options     |-> ZOptional(ZArray(ZString)),
             validation  |-> ZOptional(ZObject([min     |-> ZOptional(ZNumber),
                                                max     |-> ZOptional(ZNumber),
                                                pattern |-> ZOptional(ZString),
                                                message |-> ZOptional(ZString)]))])

FormComponentSchema ==
    Extend([type         |-> ZLiteral("form"),
            description  |-> ZOptional(ZString),
            fields       |-> ZArray(FormFieldSchema),
            submitButton |-> ZOptional(ZObject(
                [text  |-> ZDefault(ZString, Str("Submit")),
                 style |-> ZDefault(ZOptional(ZEnum({"primary", "secondary", "success", "danger"})),
                                    Str("primary"))])),
            onSubmit     |-> ZOptional(ZString)])

ActionButtonSchema ==
    ZObject([label    |-> ZString,
             action   |-> ZString,
             params   |-> ZOptional(ZRecord(ZAny)),
             style    |-> ZDefault(ZOptional(ZEnum({"primary", "secondary", "success",
                                                    "warning", "danger"})), Str("primary")),
             size     |-> ZDefault(ZOptional(ZEnum({"sm", "md", "lg"})), Str("md")),
             disabled |-> ZDefault(ZOptional(ZBoolean), Bool(FALSE)),
             icon     |-> ZOptional(ZString)])

ActionCardSchema ==
    Extend([type        |-> ZLiteral("actionCard"),
            description |-> ZOptional(ZString),
            image       |-> ZOptional(ZString),
            actions     |-> ZArray(ActionButtonSchema),
            variant     |-> ZDefault(ZOptional(ZEnum({"default", "outlined", "elevated"})),
                                     Str("default"))])

\* DashboardSectionSchema with the bound of span.cols on span.rows as well
DashboardSectionSchemaRowsAsCols ==
    ZObject([id        |-> ZString,
             type      |-> ZEnum({"metric", "chart", "table", "form", "weather", "actionCard"}),
             title     |-> ZString,
             span      |-> ZOptional(ZObject(
                              [cols |-> ZDefault(ZOptional(ZNumberIn(1, 12)), Num(1)),
                               rows |-> ZDefault(ZOptional(ZNumberIn(1, 12)), Num(1))])),
             component |-> ZUnion(<<WeatherComponentSchema,
                                    DataVisualizationSchema,
                                    FormComponentSchema,
                                    ActionCardSchema,
                                    ZObject([type  |-> ZLiteral("metric"),
                                             value |-> ZString,
                                             unit  |-> ZOptional(ZString)])>>)])

DashboardSectionSchema ==
    ZObject([id        |-> ZString,
             type      |-> ZEnum({"metric", "chart", "table", "form", "weather", "actionCard"}),
             title     |-> ZString,
             span      |-> ZOptional(ZObject(
                              [cols |-> ZDefault(ZOptional(ZNumberIn(1, 12)), Num(1)),
                               rows |-> ZDefault(ZOptional(ZNumberIn(1, 6)), Num(1))])),
             component |-> ZUnion(<<WeatherComponentSchema,
                                    DataVisualizationSchema,
                                    FormComponentSchema,
                                    ActionCardSchema,
                                    ZObject([type  |-> ZLiteral("metric"),
                                             value |-> ZString,
                                             unit  |-> ZOptional(ZString)])>>)])

\* DashboardSchema with gridCols: z.number().min(1).max(12).optional()
DashboardSchemaNoGridDefault ==
    Extend([type     |-> ZLiteral("dashboard"),
            layout   |-> ZDefault(ZOptional(ZEnum({"grid", "columns", "rows"})), Str("grid")),
            sections |-> ZArray(DashboardSectionSchema),
            gridCols |-> ZOptional(ZNumberIn(1, 12)),
            gap      |-> ZDefault(ZOptional(ZEnum({"sm", "md", "lg"})), Str("md"))])

DashboardSchema ==
    Extend([type     |-> ZLiteral("dashboard"),
            layout   |-> ZDefault(ZOptional(ZEnum({"grid", "columns", "rows"})), Str("grid")),
            sections |-> ZArray(DashboardSectionSchema),
            gridCols |-> ZDefault(ZOptional(ZNumberIn(1, 12)), Num(3)),
            gap      |-> ZDefault(ZOptional(ZEnum({"sm", "md", "lg"})), Str("md"))])

\* WorkflowStepSchema whose component is a form or an info text only
WorkflowStepSchemaFormOnly ==
    ZObject([id          |-> ZString,
             title       |-> ZString,
             description |-> ZOptional(ZString),
             type        |-> ZEnum({"form", "info", "action", "review"}),
             completed   |-> ZDefault(ZBoolean, Bool(FALSE)),
             component   |-> ZOptional(ZUnion(<<FormComponentSchema,
                                                ZObject([type    |-> ZLiteral("info"),
                                                         content |-> ZString])>>))])

WorkflowStepSchema ==
    ZObject([id          |-> ZString,
             title       |-> ZString,
             description |-> ZOptional(ZString),
             type        |-> ZEnum({"form", "info", "action", "review"}),
             completed   |-> ZDefault(ZBoolean, Bool(FALSE)),
             component   |-> ZOptional(ZUnion(<<FormComponentSchema,
                                                ActionCardSchema,
                                                ZObject([type    |-> ZLiteral("info"),
                                                         content |-> ZString])>>))])

\* WorkflowSchema with steps: z.array(WorkflowStepSchema).optional()
WorkflowSchemaStepsOptional ==
    Extend([type         |-> ZLiteral("workflow"),
            currentStep  |-> ZDefault(ZNumber, Num(0)),
            steps        |-> ZOptional(ZArray(WorkflowStepSchema)),
            showProgress |-> ZDefault(ZOptional(ZBoolean), Bool(TRUE)),
            allowSkip    |-> ZDefault(ZOptional(ZBoolean), Bool(FALSE))])

WorkflowSchema ==
    Extend([type         |-> ZLiteral("workflow"),
            currentStep  |-> ZDefault(ZNumber, Num(0)),
            steps        |-> ZArray(WorkflowStepSchema),
            showProgress |-> ZDefault(ZOptional(ZBoolean), Bool(TRUE)),
            allowSkip    |-> ZDefault(ZOptional(ZBoolean), Bool(FALSE))])

\* UIComponentSchema with BaseComponentSchema as a last, catch-all option
UIComponentSchemaWithFallback ==
    ZUnion(<<WeatherComponentSchema, DataVisualizationSchema, FormComponentSchema,
             ActionCardSchema, DashboardSchema, WorkflowSchema, ZObject(BaseComponentShape)>>)

UIComponentSchema ==
    ZUnion(<<WeatherComponentSchema, DataVisualizationSchema, FormComponentSchema,
             ActionCardSchema, DashboardSchema, WorkflowSchema>>)

\* parseUIComponent stamping a generated id on what it returns
parseUIComponentFreshId(json) ==
    LET r == Parse(UIComponentSchema, json)
    IN  IF r.ok THEN [returned |-> Obj(Spread(r.v.v, [id |-> Str("generated")]))]
        ELSE [thrown |-> "ZodError"]

\* parseUIComponent putting a prefix before the id of what it returns
parseUIComponentPrefixingId(json) ==
    LET r == Parse(UIComponentSchema, json)
    IN  IF r.ok THEN [returned |-> Obj(Spread(r.v.v, [id |-> Str("ui-" \o r.v.v.id.v)]))]
        ELSE [thrown |-> "ZodError"]

\* UIComponentSchema.parse(json): the component, or a thrown ZodError
parseUIComponent(json) ==
    LET r == Parse(UIComponentSchema, json)
    IN  IF r.ok THEN [returned |-> r.v] ELSE [thrown |-> "ZodError"]

ComponentRegistry ==
    [weather           |-> WeatherComponentSchema,
     dataVisualization |-> DataVisualizationSchema,
     form              |-> FormComponentSchema,
     actionCard        |-> ActionCardSchema,
     dashboard         |-> DashboardSchema,
     workflow          |-> WorkflowSchema]

\* createComponent(type, data): schema.parse({ id: <generated>, type, ...data });
\* generated stands for `${type}-${Date.now()}-${random}`
createComponent(type, data, generated) ==
    LET defaultData == Obj(Spread([id |-> Str(generated), type |-> Str(type)], data.v))
        r           == Parse(ComponentRegistry[type], defaultData)
    IN  IF r.ok THEN [returned |-> r.v] ELSE [thrown |-> "ZodError"]

(***************************************************************************)
(* JSONRenderer.tsx                                                        *)
(***************************************************************************)
\* FormComponent's submit button: {component.submitButton?.text || 'Submit'}
SubmitButtonText(component) ==
    IF /\ "submitButton" \in DOMAIN component.v
       /\ "text" \in DOMAIN component.v.submitButton.v
       /\ component.v.submitButton.v.text.v # ""
    THEN component.v.submitButton.v.text.v
    ELSE "Submit"

(***************************************************************************)
(* Inputs.  A patch is (stateKey, data); data is any JavaScript value.     *)
(***************************************************************************)
StateKeys == SectionKeys \cup {"foo", "lastUpdate"}

DataInputs ==
    { Obj([f1 |-> [email |-> "a@x.com", name |-> "Ann"]]),
      Obj([f1 |-> [email |-> "b@x.com"]]),
      Obj([f2 |-> [email |-> "a@x.com"], f3 |-> [name |-> "Bob"]]),
      Null }

ObjectInputs == {d \in DataInputs : d.k = "object"}

\* the sections the rendered components patch (JSONRenderer.tsx: FormComponent
\* writes formData, WorkflowComponent writes components)
ComponentKeys == {"formData", "components"}

(***************************************************************************)
(* Tool results handed to the render callbacks of useRenderToolCall.  A    *)
(* result string is modelled by its first 15 bytes (head), which are all   *)
(* that createResultHash looks at, and by what JSON.parse makes of it      *)
(* (value; SyntaxError for text that is not JSON).                         *)
(***************************************************************************)
SyntaxError == [k |-> "SyntaxError"]

\* JSON.stringify of the object built by getWeather (agent.ts): id comes first
WeatherResult(id, location) ==
    [tool   |-> "getWeather",
     result |-> [head  |-> "{\"id\":\"weather-",
                 value |-> Obj([id          |-> Str(id),
                                type        |-> Str("weather"),
                                location    |-> Str(location),
                                temperature |-> Str("70F"),
                                description |-> Str("Clear skies"),
                                humidity    |-> Str("45%"),
                                windSpeed   |-> Str("5 mph"),
                                feelsLike   |-> Str("72F"),
                                icon        |-> Str("sun"),
                                title       |-> Str(location)])]]

ToolResults ==
    { WeatherResult("weather-1", "Tokyo"),
      WeatherResult("weather-2", "Paris"),
      \* a result for the same component id, written with type first
      [tool   |-> "getWeather",
       result |-> [head  |-> "{\"type\":\"weathe",
                   value |-> Obj([type |-> Str("weather"), id |-> Str("weather-1"),
                                  location |-> Str("Osaka")])]],
      \* no location: the schema rejects it
      [tool   |-> "getWeather",
       result |-> [head  |-> "{\"id\":\"weather-",
                   value |-> Obj([id |-> Str("weather-3"), type |-> Str("weather")])]],
      \* a discriminant no schema knows
      [tool   |-> "createActionCard",
       result |-> [head  |-> "{\"type\":\"bogus\"",
                   value |-> Obj([type |-> Str("bogus")])]],
      \* text that is not JSON
      [tool   |-> "createWorkflow",
       result |-> [head |-> "oops", value |-> SyntaxError]] }

(***************************************************************************)
(* Payloads for the schemas: for each of the six variants a payload with   *)
(* the required fields only, the same without id and without the          *)
(* variant's own required field, payloads whose type is absent or unknown, *)
(* and a form that names an empty submitButton.                            *)
(***************************************************************************)
MinimalPayload ==
    [weather           |-> Obj([type |-> Str("weather"), id |-> Str("w1"),
                                location |-> Str("Tokyo")]),
     dataVisualization |-> Obj([type |-> Str("dataVisualization"), id |-> Str("c1"),
                                data |-> Arr(<<Obj([label |-> Str("a"), value |-> Num(1)])>>)]),
     form              |-> Obj([type |-> Str("form"), id |-> Str("f1"),
                                fields |-> Arr(<<Obj([name |-> Str("email"),
                                                      type |-> Str("email")])>>)]),
     actionCard        |-> Obj([type |-> Str("actionCard"), id |-> Str("a1"),
                                actions |-> Arr(<<Obj([label  |-> Str("Go"),
                                                       action |-> Str("go")])>>)]),
     dashboard         |-> Obj([type |-> Str("dashboard"), id |-> Str("d1"),
                                sections |-> Arr(<<Obj([id    |-> Str("s1"),
                                                        type  |-> Str("metric"),
                                                        title |-> Str("Users"),
                                                        component |->
                                                            Obj([type  |-> Str("metric"),
                                                                 value |-> Str("5")])])>>)]),
     workflow          |-> Obj([type |-> Str("workflow"), id |-> Str("wf1"),
                                steps |-> Arr(<<Obj([id    |-> Str("s1"),
                                                     title |-> Str("Start"),
                                                     type  |-> Str("info")])>>)])]

VariantTypes == DOMAIN MinimalPayload

\* the field each variant requires beside id and type
RequiredField ==
    [weather |-> "location", dataVisualization |-> "data", form |-> "fields",
     actionCard |-> "actions", dashboard |-> "sections", workflow |-> "steps"]

\* the object without one of its keys
Without(obj, key) == Obj([x \in DOMAIN obj.v \ {key} |-> obj.v[x]])

BogusPayload == Obj([type |-> Str("bogus"), id |-> Str("x1"), location |-> Str("Tokyo")])

FormWithEmptySubmit ==
    Obj([type |-> Str("form"), id |-> Str("f2"), fields |-> Arr(<<>>),
         submitButton |-> Obj(EmptyObj)])

\* the four variants that embed no other component
LeafVariants == {"weather", "dataVisualization", "form", "actionCard"}

\* a dashboard with an unknown key, a grid width and one section of a span
\* that embeds child
DashboardWith(gridCols, cols, rows, child) ==
    Obj([type     |-> Str("dashboard"), id |-> Str("d2"), title |-> Str("Ops"),
         theme    |-> Str("dark"),
         gridCols |-> Num(gridCols),
         sections |-> Arr(<<Obj([id    |-> Str("s1"),
                                 type  |-> Str(IF child.v.type.v = "dataVisualization"
                                               THEN "chart" ELSE child.v.type.v),
                                 title |-> Str("Section"),
                                 span  |-> Obj([cols |-> Num(cols), rows |-> Num(rows)]),
                                 component |-> child])>>)])

\* a workflow of two steps, the first of which embeds child
WorkflowWithChild(child) ==
    Obj([type  |-> Str("workflow"), id |-> Str("wf2"),
         steps |-> Arr(<<Obj([id    |-> Str("s1"), title |-> Str("Start"),
                              type  |-> Str(CASE child.v.type.v = "form"       -> "form"
                                              [] child.v.type.v = "actionCard" -> "action"
                                              [] OTHER                         -> "info"),
                              component |-> child]),
                         Obj([id |-> Str("s2"), title |-> Str("Done"),
                              type |-> Str("review")])>>)])

\* gridCols, span.cols and span.rows at and beyond the ends of their ranges
BoundsPayloads ==
    {DashboardWith(t[1], t[2], t[3], MinimalPayload["weather"]) :
        t \in {<<1, 1, 1>>, <<12, 12, 6>>, <<0, 1, 1>>, <<13, 1, 1>>,
                <<3, 0, 1>>, <<3, 13, 1>>, <<3, 1, 0>>, <<3, 1, 7>>}}

CompositePayloads ==
    {DashboardWith(3, 2, 2, MinimalPayload[V]) : V \in LeafVariants}
        \cup {WorkflowWithChild(MinimalPayload[V]) : V \in LeafVariants}

Payloads ==
    {MinimalPayload[v] : v \in VariantTypes}
        \cup {Without(MinimalPayload[v], "id") : v \in VariantTypes}
        \cup {Without(MinimalPayload[v], RequiredField[v]) : v \in VariantTypes}
        \cup {Without(MinimalPayload["weather"], "type"), BogusPayload, FormWithEmptySubmit}
        \cup BoundsPayloads \cup CompositePayloads

\* the tool whose render callback hands over a payload of this type
ToolOf ==
    [weather |-> "getWeather", dataVisualization |-> "showDataVisualization",
     form |-> "createInteractiveForm", actionCard |-> "createActionCard",
     dashboard |-> "createDashboard", workflow |-> "createWorkflow"]

\* the first 15 bytes of the payload written as JSON with type first
StringifiedHead(value) ==
    IF "type" \notin DOMAIN value.v THEN "{\"id\":\"w1\",\"loc"
    ELSE CASE value.v.type.v = "weather"           -> "{\"type\":\"weathe"
           [] value.v.type.v = "dataVisualization" -> "{\"type\":\"dataVi"
           [] value.v.type.v = "form"              -> "{\"type\":\"form\","
           [] value.v.type.v = "actionCard"        -> "{\"type\":\"action"
           [] value.v.type.v = "dashboard"         -> "{\"type\":\"dashbo"
           [] value.v.type.v = "workflow"          -> "{\"type\":\"workfl"
           [] OTHER                                -> "{\"type\":\"bogus\""

PayloadResult(value) ==
    [tool   |-> IF "type" \in DOMAIN value.v /\ value.v.type.v \in VariantTypes
                THEN ToolOf[value.v.type.v] ELSE "getWeather",
     result |-> [head |-> StringifiedHead(value), value |-> value]]

PayloadResults == {PayloadResult(value) : value \in Payloads}

(***************************************************************************)
(* agent.ts: the component tools.  A tool builds an object from its        *)
(* arguments and returns JSON.stringify of it; generated ids are written   *)
(* with a fixed suffix.  args is the object the tool's schema accepted.    *)
(***************************************************************************)
\* a || b
OrElse(a, b) ==
    IF \/ a.k \in {"undefined", "null"}
       \/ a.k = "string" /\ a.v = ""
       \/ a.k = "number" /\ a.v = 0
       \/ a.k = "boolean" /\ a.v = FALSE
    THEN b ELSE a

\* ...x inside an object literal: the keys of an object, nothing otherwise
SpreadOf(x) == IF x.k = "object" THEN x.v ELSE EmptyObj

showDataVisualization(args) ==
    Obj([id        |-> Str("dataviz-1"),
         type      |-> Str("dataVisualization"),
         title     |-> Field(args.v, "title"),
         chartType |-> OrElse(Field(args.v, "chartType"), Str("table")),
         data      |-> OrElse(Field(args.v, "items"),
                              Arr(<<Obj([label |-> Str("Sample Data"),
                                         value |-> Str("No data provided")])>>))])

createInteractiveForm(args) ==
    Obj([id           |-> Str("form-1"),
         type         |-> Str("form"),
         title        |-> Field(args.v, "title"),
         description  |-> Field(args.v, "description"),
         fields       |-> OrElse(Field(args.v, "fields"),
                                 Arr(<<Obj([name        |-> Str("example"),
                                            type        |-> Str("text"),
                                            label       |-> Str("Example Field"),
                                            placeholder |-> Str("Enter text...")])>>)),
         submitButton |-> Obj([text |-> Str("Submit"), style |-> Str("primary")])])

createDashboard(args) ==
    LET sections == OrElse(Field(args.v, "sections"), Arr(<<>>)).v
    IN  Obj([id       |-> Str("dashboard-1"),
             type     |-> Str("dashboard"),
             title    |-> Field(args.v, "title"),
             layout   |-> OrElse(Field(args.v, "layout"), Str("grid")),
             gridCols |-> Num(3),
             sections |-> Arr([i \in 1..Len(sections) |->
                                Obj([id    |-> Str("section-1"),
                                     type  |-> Field(sections[i].v, "type"),
                                     title |-> Field(sections[i].v, "title"),
                                     component |->
                                        Obj(Spread([id    |-> Str("component-1"),
                                                    type  |-> Field(sections[i].v, "type"),
                                                    title |-> Field(sections[i].v, "title")],
                                                   SpreadOf(Field(sections[i].v, "data"))))])])])

createActionCard(args) ==
    LET actions == OrElse(Field(args.v, "actions"), Arr(<<>>)).v
    IN  Obj([id          |-> Str("actioncard-1"),
             type        |-> Str("actionCard"),
             title       |-> Field(args.v, "title"),
             description |-> Field(args.v, "description"),
             actions     |-> Arr([i \in 1..Len(actions) |->
                                   Obj([label  |-> Field(actions[i].v, "label"),
                                        action |-> Field(actions[i].v, "action"),
                                        style  |-> OrElse(Field(actions[i].v, "style"),
                                                          Str("primary"))])])])

createWorkflow(args) ==
    LET steps == OrElse(Field(args.v, "steps"), Arr(<<>>)).v
    IN  Obj([id           |-> Str("workflow-1"),
             type         |-> Str("workflow"),
             title        |-> Field(args.v, "title"),
             currentStep  |-> OrElse(Field(args.v, "currentStep"), Num(0)),
             steps        |-> Arr([i \in 1..Len(steps) |->
                                    Obj([id          |-> Str("step-1"),
                                         title       |-> Field(steps[i].v, "title"),
                                         description |-> Field(steps[i].v, "description"),
                                         type        |-> Field(steps[i].v, "type"),
                                         completed   |-> OrElse(Field(steps[i].v, "completed"),
                                                               Bool(FALSE))])]),
             showProgress |-> Bool(TRUE)])

\* what the render callback of a tool receives: the JSON text the tool
\* returned, by its first 15 bytes and its JSON.parse
AgentResult(tool, head, object) ==
    [tool |-> tool, result |-> [head |-> head, value |-> JsonStringifyParse(object)]]

\* one section of a dashboard, as createDashboard's schema accepts it
SectionArgs(type, data) ==
    Arr(<<Obj([type |-> Str(type), title |-> Str("Section"), data |-> data])>>)

\* results of the component tools for arguments their schemas accept
AgentResults ==
    { WeatherResult("weather-1", "Tokyo") }
      \cup { AgentResult("showDataVisualization", "{\"id\":\"dataviz-", showDataVisualization(args)) :
                args \in { Obj([title |-> Str("Sales")]),
                           Obj([title |-> Str("Sales"), chartType |-> Str("bar"),
                                items |-> Arr(<<Obj([label |-> Str("Q1"),
                                                     value |-> Num(1)])>>)]) } }
      \cup { AgentResult("createInteractiveForm", "{\"id\":\"form-17", createInteractiveForm(args)) :
                args \in { Obj([title |-> Str("Contact")]),
                           Obj([title |-> Str("Contact"), description |-> Str("Write to us"),
                                fields |-> Arr(<<Obj([name |-> Str("email"),
                                                      type |-> Str("email"),
                                                      required |-> Bool(TRUE)])>>)]) } }
      \cup { AgentResult("createDashboard", "{\"id\":\"dashboar", createDashboard(args)) :
                args \in { Obj([title |-> Str("Ops"), sections |-> Arr(<<>>)]),
                           Obj([title |-> Str("Ops"), layout |-> Str("rows"),
                                sections |-> SectionArgs("metric", Obj([value |-> Str("5")]))]),
                           Obj([title |-> Str("Ops"),
                                sections |-> SectionArgs("chart",
                                    Obj([chartType |-> Str("bar"),
                                         data |-> Arr(<<Obj([label |-> Str("Q1"),
                                                             value |-> Num(1)])>>)]))]),
                           Obj([title |-> Str("Ops"),
                                sections |-> SectionArgs("table", Undefined)]) } }
      \cup { AgentResult("createActionCard", "{\"id\":\"actionca",
                         createActionCard(Obj([title   |-> Str("Deploy"),
                                               actions |-> Arr(<<Obj([label  |-> Str("Go"),
                                                                      action |-> Str("go")])>>)]))) }
      \cup { AgentResult("createWorkflow", "{\"id\":\"workflow",
                         createWorkflow(Obj([title |-> Str("Onboarding"), currentStep |-> Num(0),
                                             steps |-> Arr(<<Obj([title |-> Str("Start"),
                                                                  type  |-> Str("info"),
                                                                  completed |-> Bool(FALSE)]),
                                                             Obj([title |-> Str("Done"),
                                                                  type  |-> Str("review"),
                                                                  completed |-> Bool(FALSE)])>>)]))) }

\* every result a render callback is handed in some session
\* a form of two fields, alone, as the first step of a workflow and as the
\* section of a dashboard
SignupForm ==
    Obj([type |-> Str("form"), id |-> Str("f1"), title |-> Str("Sign up"),
         fields |-> Arr(<<Obj([name |-> Str("name"), type |-> Str("text")]),
                          Obj([name |-> Str("email"), type |-> Str("email")])>>)])

ComponentResults ==
    {PayloadResult(value) :
        value \in {SignupForm, WorkflowWithChild(SignupForm), DashboardWith(3, 2, 2, SignupForm)}}

AllResults == ToolResults \cup PayloadResults \cup AgentResults \cup ComponentResults

\* `${toolName}-${btoa(resultStr).substring(0, 20)}`: 20 base64 characters
\* encode the first 15 bytes of the result string
createResultHash(result, toolName) == <<toolName, result.head>>

\* parseUIComponent(JSON.parse(jsonData)): the component, or what is thrown
ParseJsonData(jsonData) ==
    IF jsonData.value.k = "SyntaxError" THEN [thrown |-> "SyntaxError"]
    ELSE parseUIComponent(jsonData.value)

(***************************************************************************)
(* State after the first render of YourMainContent.                        *)
(***************************************************************************)
Init ==
    /\ now = StartTime
    /\ uiState = InitialUIState(now)
    /\ currentStateRef = uiState
    /\ canvasComponents = <<>>
    /\ processedResults = {}
    /\ timers = <<>>
    /\ response = [action |-> "none", value |-> [text |-> "undefined", keys |-> {}]]
    /\ events = 0
    /\ admitCalls = [tr \in AllResults |-> 0]
    /\ local = EmptyObj
    /\ clearedWhilePending = FALSE

\* Date.now() moves on
Tick ==
    /\ events < MaxEvents
    /\ now' = now + 1
    /\ events' = events + 1
    /\ UNCHANGED <<uiState, currentStateRef, canvasComponents, processedResults, timers,
                   response, admitCalls, local,
                   clearedWhilePending>>

(***************************************************************************)
(* Patches.                                                                *)
(***************************************************************************)
\* useCopilotAction "updateUIState": handler({ stateKey, data })
updateUIState(stateKey, data) ==
    /\ events < MaxEvents
    /\ events' = events + 1
    /\ response' = [action |-> "updateUIState", value |-> [text |-> "undefined", keys |-> {}]]
    /\ UNCHANGED <<currentStateRef, canvasComponents, processedResults, timers, now, admitCalls, local,
                   clearedWhilePending>>
    /\ uiState' = MergeSection(uiState, stateKey, data, now)

\* the helper updateStateFromComponent(stateKey, data)
updateStateFromComponent(stateKey, data) ==
    /\ events < MaxEvents
    /\ events' = events + 1
    /\ UNCHANGED <<currentStateRef, canvasComponents, processedResults, timers, now,
                   response, admitCalls, local,
                   clearedWhilePending>>
    /\ uiState' = MergeSection(uiState, stateKey, data, now)

\* the onStateUpdate prop of a JSONRenderer on the canvas
onStateUpdate(stateKey, data) ==
    /\ events < MaxEvents
    /\ canvasComponents # <<>>
    /\ events' = events + 1
    /\ UNCHANGED <<canvasComponents, processedResults, timers, now, response, admitCalls, local,
                   clearedWhilePending>>
    /\ uiState' = MergeSection(uiState, stateKey, data, now)
    /\ currentStateRef' = uiState'

\* useEffect(() => { currentStateRef.current = state.uiState }, [state.uiState])
SyncStateRef ==
    /\ currentStateRef # uiState
    /\ currentStateRef' = uiState
    /\ UNCHANGED <<uiState, canvasComponents, processedResults, timers, now, response,
                   events, admitCalls, local,
                   clearedWhilePending>>

(***************************************************************************)
(* Reads.                                                                  *)
(***************************************************************************)
\* Object.entries(x || {}).length
Count(section) == Cardinality(DOMAIN section)

\* The handlers answer with text built from the document.  An answer is
\* modelled by its leading line and by the keys it lists, not by the values
\* printed under them.
\* getUIState: stateKey "" is the omitted parameter
UIStateAnswer(currentState, stateKey) ==
    IF stateKey # ""
    THEN IF stateKey = "formData"
         THEN IF Count(currentState.formData) = 0
              THEN [text |-> "No form data has been entered yet.", keys |-> {}]
              ELSE [text |-> "Current form data:", keys |-> DOMAIN currentState.formData]
         ELSE IF stateKey \in DOMAIN currentState
              THEN IF stateKey = "lastUpdate"
                   THEN [text |-> "number", keys |-> {}]
                   ELSE [text |-> "object", keys |-> DOMAIN currentState[stateKey]]
              ELSE [text |-> "undefined", keys |-> {}]
    ELSE [text |-> "Complete UI State Summary:",
          keys |-> DOMAIN currentState.formData \cup DOMAIN currentState.appData
                   \cup DOMAIN currentState.components]

\* getUIState writing the time of the read into the document
getUIStateTouching(stateKey) ==
    /\ events < MaxEvents
    /\ events' = events + 1
    /\ response' = [action |-> "getUIState", value |-> UIStateAnswer(uiState, stateKey)]
    /\ uiState' = [uiState EXCEPT !.lastUpdate = now]
    /\ UNCHANGED <<currentStateRef, canvasComponents, processedResults, timers, now,
                   admitCalls, local,
                   clearedWhilePending>>

\* useCopilotAction "getUIState": handler({ stateKey })
getUIState(stateKey) ==
    /\ events < MaxEvents
    /\ events' = events + 1
    /\ response' = [action |-> "getUIState", value |-> UIStateAnswer(uiState, stateKey)]
    /\ UNCHANGED <<uiState, currentStateRef, canvasComponents, processedResults, timers, now,
                   admitCalls, local,
                   clearedWhilePending>>

\* useCopilotAction "debugUIState"
debugUIState ==
    /\ events < MaxEvents
    /\ events' = events + 1
    /\ response' = [action |-> "debugUIState",
                    value  |-> [text |-> "UI State Debug Information",
                                keys |-> DOMAIN uiState.formData \cup DOMAIN uiState.appData
                                         \cup DOMAIN uiState.components]]
    /\ UNCHANGED <<uiState, currentStateRef, canvasComponents, processedResults, timers, now,
                   admitCalls, local,
                   clearedWhilePending>>

\* useCopilotAction "getCurrentFormData"
getCurrentFormData ==
    LET hookState    == uiState
        refState     == currentStateRef
        currentState == IF refState.lastUpdate > hookState.lastUpdate THEN refState ELSE hookState
    IN  /\ response' = [action |-> "getCurrentFormData",
                        value  |-> IF Count(currentState.formData) = 0
                                   THEN [text |-> "No form data has been entered yet.", keys |-> {}]
                                   ELSE [text |-> "CURRENT FORM DATA:",
                                         keys |-> DOMAIN currentState.formData]]
        /\ events < MaxEvents
        /\ events' = events + 1
        /\ UNCHANGED <<uiState, currentStateRef, canvasComponents, processedResults, timers,
                       now, admitCalls, local,
                   clearedWhilePending>>

(***************************************************************************)
(* The canvas.                                                             *)
(***************************************************************************)
NoHash == <<>>

\* addToCanvas(jsonData, resultHash) up to its setTimeout
addToCanvas(jsonData, resultHash) ==
    IF resultHash # NoHash /\ resultHash \in processedResults
    THEN timers' = timers
    ELSE timers' = Append(timers, [jsonData |-> jsonData, resultHash |-> resultHash])

\* a render callback of useRenderToolCall with status "complete" and a result
RenderToolCall(tr) ==
    /\ events < MaxEvents
    /\ events' = events + 1
    /\ addToCanvas(tr.result, createResultHash(tr.result, tr.tool))
    /\ admitCalls' = [admitCalls EXCEPT ![tr] = @ + 1]
    /\ clearedWhilePending' = FALSE
    /\ UNCHANGED <<uiState, currentStateRef, canvasComponents, processedResults, now,
                   response, local>>

\* FindIndex comparing the canvas id of an instance: c.id === component.id
FindIndexByCanvasId(prev, componentId) ==
    LET hits == {i \in 1..Len(prev) : prev[i].id = componentId}
    IN  IF hits = {} THEN 0 ELSE CHOOSE i \in hits : \A j \in hits : i <= j

\* prev.findIndex(c => c.componentId === component.id); 0 stands for -1
FindIndex(prev, componentId) ==
    LET hits == {i \in 1..Len(prev) : prev[i].componentId = componentId}
    IN  IF hits = {} THEN 0 ELSE CHOOSE i \in hits : \A j \in hits : i <= j

\* PlaceOnCanvas without the search for the component id
PlaceOnCanvasAppend(prev, newComponent) == Append(prev, newComponent)

\* PlaceOnCanvas dropping the old instance and putting the new one last
PlaceOnCanvasMoveToEnd(prev, newComponent) ==
    LET keep == {i \in 1..Len(prev) : prev[i].componentId # newComponent.componentId}
        F[i \in 0..Len(prev)] ==
            IF i = 0 THEN <<>>
            ELSE IF i \in keep THEN Append(F[i - 1], prev[i]) ELSE F[i - 1]
    IN  Append(F[Len(prev)], newComponent)

\* PlaceOnCanvas putting a new instance first: [newComponent, ...prev]
PlaceOnCanvasPrepend(prev, newComponent) ==
    LET existingIndex == FindIndex(prev, newComponent.componentId)
    IN  IF existingIndex # 0
        THEN [prev EXCEPT ![existingIndex] = newComponent]
        ELSE <<newComponent>> \o prev

\* the updater handed to setCanvasComponents
PlaceOnCanvas(prev, newComponent) ==
    LET existingIndex == FindIndex(prev, newComponent.componentId)
    IN  IF existingIndex # 0
        THEN [prev EXCEPT ![existingIndex] = newComponent]
        ELSE Append(prev, newComponent)

(***************************************************************************)
(* The components React keeps mounted under the canvas (JSONRenderer.tsx). *)
(* A slot is the place of a component that holds useState values: <<key>>  *)
(* for the JSONRenderer of a canvas instance (key is the instance's canvas *)
(* id), <<key, "step">> for the one a workflow renders for its current     *)
(* step, <<key, "section", i>> for the one of a dashboard's i-th section.  *)
(* A form holds formData, a workflow holds currentStep.  A component that  *)
(* stays in its slot keeps its values; one that appears there starts from  *)
(* the document it is handed.                                              *)
(***************************************************************************)
\* a component description's type, "" when it has none
TypeOf(component) ==
    IF component.k = "object" /\ "type" \in DOMAIN component.v THEN component.v.type.v ELSE ""

\* FormComponent: currentState?.formData?.[component.id] || {}
\* (handed is FALSE where the parent passes no currentState)
savedFormData(component, currentState, handed) ==
    IF handed /\ component.v.id.v \in DOMAIN currentState.formData
    THEN currentState.formData[component.v.id.v]
    ELSE EmptyObj

\* WorkflowComponent: (currentState?.components?.[component.id]
\*                      || { currentStep: component.currentStep || 0 }).currentStep
savedProgress(component, currentState) ==
    IF component.v.id.v \in DOMAIN currentState.components
    THEN LET saved == currentState.components[component.v.id.v]
         IN  IF "currentStep" \in DOMAIN saved THEN Num(saved.currentStep) ELSE Undefined
    ELSE IF "currentStep" \in DOMAIN component.v THEN component.v.currentStep ELSE Num(0)

\* component.steps[currentStep].component, Undefined when there is none
StepComponent(component, currentStep) ==
    IF /\ currentStep.k = "number"
       /\ "steps" \in DOMAIN component.v
       /\ currentStep.v \in 0..(Len(component.v.steps.v) - 1)
       /\ "component" \in DOMAIN component.v.steps.v[currentStep.v + 1].v
    THEN component.v.steps.v[currentStep.v + 1].v.component
    ELSE Undefined

\* the useState values a component keeps from prev, or starts with
UseState(prev, slot, component, currentState, handed) ==
    IF TypeOf(component) = "form"
    THEN IF slot \in DOMAIN prev /\ "formData" \in DOMAIN prev[slot]
         THEN prev[slot]
         ELSE [formData |-> savedFormData(component, currentState, handed)]
    ELSE IF slot \in DOMAIN prev /\ "currentStep" \in DOMAIN prev[slot]
         THEN prev[slot]
         ELSE [currentStep |-> savedProgress(component, currentState)]

\* what is mounted once the canvas has rendered canvas under currentState
Rendered(prev, canvas, currentState) ==
    LET top    == {i \in 1..Len(canvas) : TypeOf(canvas[i].json) \in {"form", "workflow"}}
        topOf  == [s \in {<<canvas[i].id>> : i \in top} |->
                      LET i == CHOOSE j \in top : <<canvas[j].id>> = s
                      IN  UseState(prev, s, canvas[i].json, currentState, TRUE)]
        steps  == {i \in 1..Len(canvas) :
                      /\ TypeOf(canvas[i].json) = "workflow"
                      /\ TypeOf(StepComponent(canvas[i].json,
                                              topOf[<<canvas[i].id>>].currentStep)) = "form"}
        stepOf == [s \in {<<canvas[i].id, "step">> : i \in steps} |->
                      LET i == CHOOSE j \in steps : <<canvas[j].id, "step">> = s
                      IN  UseState(prev, s,
                                   StepComponent(canvas[i].json,
                                                 topOf[<<canvas[i].id>>].currentStep),
                                   currentState, TRUE)]
        \* component.sections?.map
        boards == {i \in 1..Len(canvas) : /\ TypeOf(canvas[i].json) = "dashboard"
                                          /\ "sections" \in DOMAIN canvas[i].json.v}
        sects  == {p \in UNION {{<<i, j>> : j \in 1..Len(canvas[i].json.v.sections.v)} :
                                  i \in boards} :
                      /\ "component" \in DOMAIN canvas[p[1]].json.v.sections.v[p[2]].v
                      /\ TypeOf(canvas[p[1]].json.v.sections.v[p[2]].v.component) = "form"}
        sectOf == [s \in {<<canvas[p[1]].id, "section", p[2]>> : p \in sects} |->
                      LET p == CHOOSE q \in sects : <<canvas[q[1]].id, "section", q[2]>> = s
                      IN  UseState(prev, s, canvas[p[1]].json.v.sections.v[p[2]].v.component,
                                   currentState, FALSE)]
    IN  topOf @@ stepOf @@ sectOf

\* TimerFires recording the result hash before the result is parsed
TimerFiresRecordingFirst ==
    /\ timers # <<>>
    /\ timers' = Tail(timers)
    /\ LET jsonData   == Head(timers).jsonData
           resultHash == Head(timers).resultHash
           parsed     == ParseJsonData(jsonData)
           recorded   == IF resultHash # NoHash THEN processedResults \cup {resultHash}
                         ELSE processedResults
       IN  IF "thrown" \in DOMAIN parsed
           THEN /\ processedResults' = recorded
                /\ UNCHANGED <<canvasComponents, now>>
           ELSE \E t \in {now, now + 1} :
                  /\ now' = t
                  /\ canvasComponents' =
                        PlaceOnCanvas(canvasComponents,
                                      [id          |-> <<parsed.returned.v.id.v, "canvas", now>>,
                                       componentId |-> parsed.returned.v.id.v,
                                       json        |-> parsed.returned,
                                       timestamp   |-> t])
                  /\ processedResults' = recorded
    /\ local' = Rendered(local, canvasComponents', uiState)
    /\ UNCHANGED <<uiState, currentStateRef, response, events, admitCalls,
                   clearedWhilePending>>

\* the callback addToCanvas handed to setTimeout(.., 0); the clock may move
\* between its two Date.now() calls
TimerFires ==
    /\ timers # <<>>
    /\ timers' = Tail(timers)
    /\ LET jsonData   == Head(timers).jsonData
           resultHash == Head(timers).resultHash
           parsed     == ParseJsonData(jsonData)
       IN  IF "thrown" \in DOMAIN parsed
           THEN UNCHANGED <<canvasComponents, processedResults, now>>
           ELSE \E t \in {now, now + 1} :
                  /\ now' = t
                  /\ canvasComponents' =
                        PlaceOnCanvas(canvasComponents,
                                      [id          |-> <<parsed.returned.v.id.v, "canvas", now>>,
                                       componentId |-> parsed.returned.v.id.v,
                                       json        |-> parsed.returned,
                                       timestamp   |-> t])
                  /\ processedResults' = IF resultHash # NoHash
                                         THEN processedResults \cup {resultHash}
                                         ELSE processedResults
    /\ local' = Rendered(local, canvasComponents', uiState)
    /\ UNCHANGED <<uiState, currentStateRef, response, events, admitCalls,
                   clearedWhilePending>>

\* clearCanvas resetting the document as well
clearCanvasAndState ==
    /\ events < MaxEvents
    /\ events' = events + 1
    /\ canvasComponents' = <<>>
    /\ processedResults' = {}
    /\ uiState' = InitialUIState(now)
    /\ response' = [action |-> "clearCanvas", value |-> [text |-> "undefined", keys |-> {}]]
    /\ local' = EmptyObj
    /\ clearedWhilePending' = (timers # <<>>)
    /\ UNCHANGED <<currentStateRef, timers, now, admitCalls>>

\* clearCanvas without processedResults.current.clear()
clearCanvasKeepingHashes ==
    /\ canvasComponents' = <<>>
    /\ response' = [action |-> "clearCanvas", value |-> [text |-> "undefined", keys |-> {}]]
    /\ events < MaxEvents
    /\ events' = events + 1
    /\ local' = EmptyObj
    /\ clearedWhilePending' = (timers # <<>>)
    /\ UNCHANGED <<uiState, currentStateRef, processedResults, timers, now, admitCalls>>

\* useCopilotAction "clearCanvas"
clearCanvas ==
    /\ canvasComponents' = <<>>
    /\ processedResults' = {}
    /\ response' = [action |-> "clearCanvas", value |-> [text |-> "undefined", keys |-> {}]]
    /\ events < MaxEvents
    /\ events' = events + 1
    /\ local' = EmptyObj
    /\ clearedWhilePending' = (timers # <<>>)
    /\ UNCHANGED <<uiState, currentStateRef, timers, now, admitCalls>>

\* the Clear Canvas button, rendered while the canvas is not empty
ClearCanvasButton ==
    /\ Len(canvasComponents) > 0
    /\ events < MaxEvents
    /\ events' = events + 1
    /\ canvasComponents' = <<>>
    /\ processedResults' = {}
    /\ local' = EmptyObj
    /\ clearedWhilePending' = (timers # <<>>)
    /\ UNCHANGED <<uiState, currentStateRef, timers, now, response, admitCalls>>

NextOver(keys, datas, results) ==
    \/ Tick
    \/ \E stateKey \in keys, data \in datas : updateUIState(stateKey, data)
    \/ \E stateKey \in keys \cap ComponentKeys, data \in datas \cap ObjectInputs :
            updateStateFromComponent(stateKey, data)
    \/ \E stateKey \in keys \cap ComponentKeys, data \in datas \cap ObjectInputs :
            onStateUpdate(stateKey, data)
    \/ SyncStateRef
    \/ \E stateKey \in keys \cup {""} : getUIState(stateKey)
    \/ debugUIState
    \/ getCurrentFormData
    \/ \E tr \in results : RenderToolCall(tr)
    \/ TimerFires
    \/ clearCanvas
    \/ ClearCanvasButton

Next == NextOver(StateKeys, DataInputs, {WeatherResult("weather-1", "Tokyo")})

NextCanvas == NextOver({"formData"}, {Obj([f1 |-> [email |-> "b@x.com"]])}, ToolResults)

Spec == Init /\ [][Next]_vars

SpecCanvas == Init /\ [][NextCanvas]_vars

\* A session that shows one tool result: the state after the first render
\* callback has handed a payload to addToCanvas, and from there the steps of
\* the program, the render callback running again for results already handed
\* over.
InitValidate ==
    \E tr \in PayloadResults \cup AgentResults :
        /\ now = StartTime
        /\ uiState = InitialUIState(now)
        /\ currentStateRef = uiState
        /\ canvasComponents = <<>>
        /\ processedResults = {}
        /\ timers = <<[jsonData   |-> tr.result,
                       resultHash |-> createResultHash(tr.result, tr.tool)]>>
        /\ response = [action |-> "none", value |-> [text |-> "undefined", keys |-> {}]]
        /\ events = 1
        /\ admitCalls = [x \in AllResults |-> IF x = tr THEN 1 ELSE 0]
        /\ local = EmptyObj
        /\ clearedWhilePending = FALSE

NextValidate ==
    NextOver({"formData"}, {Obj([f1 |-> [email |-> "b@x.com"]])},
             {tr \in PayloadResults \cup AgentResults : admitCalls[tr] > 0})

SpecValidate == InitValidate /\ [][NextValidate]_vars

(***************************************************************************)
(* The user at a mounted component (JSONRenderer.tsx).                     *)
(***************************************************************************)
\* the description the component in a slot was handed
ComponentAt(slot) ==
    LET i    == CHOOSE j \in 1..Len(canvasComponents) : canvasComponents[j].id = slot[1]
        json == canvasComponents[i].json
    IN  IF Len(slot) = 1 THEN json
        ELSE IF slot[2] = "step" THEN StepComponent(json, local[<<slot[1]>>].currentStep)
        ELSE json.v.sections.v[slot[3]].v.component

\* the onStateUpdate prop: the canvas hands it to its instances, a workflow
\* hands it on to its step, a dashboard does not hand it to its sections
HandedOnStateUpdate(slot) == Len(slot) = 1 \/ slot[2] = "step"

\* the names of the inputs a form renders
FieldNames(component) ==
    {component.v.fields.v[i].v.name.v : i \in 1..Len(component.v.fields.v)}

\* what the user types
UserInputs == {"Ann", "Bo"}

\* FormComponent.handleInputChange(name, value), the onChange of an input
handleInputChange(slot, name, value) ==
    /\ events < MaxEvents
    /\ slot \in DOMAIN local
    /\ "formData" \in DOMAIN local[slot]
    /\ name \in FieldNames(ComponentAt(slot))
    /\ events' = events + 1
    /\ LET component   == ComponentAt(slot)
           newFormData == Spread(local[slot].formData, name :> value)
           setFormData == [local EXCEPT ![slot] = [formData |-> newFormData]]
       IN  IF HandedOnStateUpdate(slot)
           THEN /\ uiState' = MergeSection(uiState, "formData",
                                           Obj(component.v.id.v :> newFormData), now)
                /\ currentStateRef' = uiState'
                /\ local' = Rendered(setFormData, canvasComponents, uiState')
           ELSE /\ local' = setFormData
                /\ UNCHANGED <<uiState, currentStateRef>>
    /\ UNCHANGED <<canvasComponents, processedResults, timers, now, response, admitCalls,
                   clearedWhilePending>>

\* Array.from({ length: step + 1 }, (_, i) => i)
CompletedSteps(step) == [i \in 1..(step + 1) |-> i - 1]

\* WorkflowComponent.updateWorkflowProgress(step)
updateWorkflowProgress(slot, step) ==
    LET component      == ComponentAt(slot)
        setCurrentStep == [local EXCEPT ![slot] = [currentStep |-> Num(step)]]
    IN  /\ uiState' = MergeSection(uiState, "components",
                                   Obj(component.v.id.v :>
                                        [currentStep    |-> step,
                                         completedSteps |-> CompletedSteps(step),
                                         lastUpdated    |-> now,
                                         title          |-> Field(component.v, "title")]),
                                   now)
        /\ currentStateRef' = uiState'
        /\ local' = Rendered(setCurrentStep, canvasComponents, uiState')

StepCount(slot) == Len(ComponentAt(slot).v.steps.v)

\* nextStep without its test of currentStep
nextStepUnguarded(slot) ==
    /\ events < MaxEvents
    /\ slot \in DOMAIN local
    /\ "currentStep" \in DOMAIN local[slot]
    /\ local[slot].currentStep.k = "number"
    /\ events' = events + 1
    /\ updateWorkflowProgress(slot, local[slot].currentStep.v + 1)
    /\ UNCHANGED <<canvasComponents, processedResults, timers, now, response, admitCalls,
                   clearedWhilePending>>

\* WorkflowComponent.nextStep, the onClick of the Next button
\* (disabled={currentStep === component.steps.length - 1})
nextStep(slot) ==
    /\ events < MaxEvents
    /\ slot \in DOMAIN local
    /\ "currentStep" \in DOMAIN local[slot]
    /\ local[slot].currentStep # Num(StepCount(slot) - 1)
    /\ events' = events + 1
    /\ IF /\ local[slot].currentStep.k = "number"
          /\ local[slot].currentStep.v < StepCount(slot) - 1
       THEN updateWorkflowProgress(slot, local[slot].currentStep.v + 1)
       ELSE UNCHANGED <<uiState, currentStateRef, local>>
    /\ UNCHANGED <<canvasComponents, processedResults, timers, now, response, admitCalls,
                   clearedWhilePending>>

\* WorkflowComponent.prevStep, the onClick of the Previous button
\* (disabled={currentStep === 0})
prevStep(slot) ==
    /\ events < MaxEvents
    /\ slot \in DOMAIN local
    /\ "currentStep" \in DOMAIN local[slot]
    /\ local[slot].currentStep # Num(0)
    /\ events' = events + 1
    /\ IF local[slot].currentStep.k = "number" /\ local[slot].currentStep.v > 0
       THEN updateWorkflowProgress(slot, local[slot].currentStep.v - 1)
       ELSE UNCHANGED <<uiState, currentStateRef, local>>
    /\ UNCHANGED <<canvasComponents, processedResults, timers, now, response, admitCalls,
                   clearedWhilePending>>

\* what the agent writes while the components are shown: an entry for the
\* form, and progress for the workflow inside and outside its steps
ComponentPatches ==
    {Obj([f1 |-> [email |-> "b@x.com"]]),
     Obj([wf2 |-> [currentStep |-> 1]]),
     Obj([wf2 |-> [currentStep |-> 2]])}

\* A session that shows a form, a workflow or a dashboard: the state after
\* the first render callback has handed the result to addToCanvas.
InitComponents ==
    \E tr \in ComponentResults :
        /\ now = StartTime
        /\ uiState = InitialUIState(now)
        /\ currentStateRef = uiState
        /\ canvasComponents = <<>>
        /\ processedResults = {}
        /\ timers = <<[jsonData   |-> tr.result,
                       resultHash |-> createResultHash(tr.result, tr.tool)]>>
        /\ response = [action |-> "none", value |-> [text |-> "undefined", keys |-> {}]]
        /\ events = 1
        /\ admitCalls = [x \in AllResults |-> IF x = tr THEN 1 ELSE 0]
        /\ local = EmptyObj
        /\ clearedWhilePending = FALSE

NextComponents ==
    \/ NextOver(ComponentKeys, ComponentPatches,
                {tr \in ComponentResults : admitCalls[tr] > 0})
    \/ \E slot \in DOMAIN local, name \in {"name", "email"}, value \in UserInputs :
            handleInputChange(slot, name, value)
    \/ \E slot \in DOMAIN local : nextStep(slot)
    \/ \E slot \in DOMAIN local : prevStep(slot)

SpecComponents == InitComponents /\ [][NextComponents]_vars

(***************************************************************************)
(* Properties of the store.                                                *)
(***************************************************************************)
\* a step of one of the three patch paths with these arguments
PatchStep(stateKey, data) ==
    \/ updateUIState(stateKey, data)
    \/ updateStateFromComponent(stateKey, data)
    \/ onStateUpdate(stateKey, data)

\* C1: a patch to a section is a shallow key-wise merge: afterwards every
\* top-level key of the patch holds exactly the patch's value (the old value is
\* replaced, not merged into), and every other key of the section is unchanged.
C1_ShallowMerge ==
    [][\A stateKey \in SectionKeys, data \in DataInputs :
          PatchStep(stateKey, data) =>
              /\ DOMAIN uiState'[stateKey] = DOMAIN uiState[stateKey] \cup DOMAIN DataOrEmpty(data)
              /\ \A x \in DOMAIN DataOrEmpty(data) : uiState'[stateKey][x] = data.v[x]
              /\ \A x \in DOMAIN uiState[stateKey] \ DOMAIN DataOrEmpty(data) :
                    uiState'[stateKey][x] = uiState[stateKey][x]]_vars

\* a form entry with two fields was overwritten by a patch carrying one field,
\* next to keys that another patch wrote
C1_Witness ==
    /\ DOMAIN uiState.formData = {"f1", "f2", "f3"}
    /\ uiState.formData["f1"] = [email |-> "b@x.com"]
    /\ events = 3

\* C2: last writer wins per top-level key: from every document the program
\* reaches, applying P1 and then P2 to the same section leaves, under every key
\* both patches write, P2's value.
C2_LastWriterWins ==
    \A stateKey \in SectionKeys, p1 \in ObjectInputs, p2 \in ObjectInputs :
        \A x \in DOMAIN p1.v \cap DOMAIN p2.v :
            MergeSection(MergeSection(uiState, stateKey, p1, now), stateKey, p2, now)[stateKey][x]
                = p2.v[x]

\* formData.f1 after {email: a@x.com, ..} and then {email: b@x.com}
C2_Witness ==
    /\ "f1" \in DOMAIN uiState.formData
    /\ uiState.formData["f1"].email = "b@x.com"
    /\ events = 2
    /\ uiState.lastUpdate = StartTime

Sections(ui) == [s \in SectionKeys |-> ui[s]]

\* C3: patches to disjoint keys of one section commute: from every document the
\* program reaches, both orders give the same components, formData and appData.
C3_DisjointPatchesCommute ==
    \A stateKey \in SectionKeys, p1 \in ObjectInputs, p2 \in ObjectInputs :
        DOMAIN p1.v \cap DOMAIN p2.v = {} =>
            Sections(MergeSection(MergeSection(uiState, stateKey, p1, now), stateKey, p2, now + 1))
          = Sections(MergeSection(MergeSection(uiState, stateKey, p2, now), stateKey, p1, now + 1))

\* a section that two disjoint patches wrote
C3_Witness ==
    /\ DOMAIN uiState.appData = {"f1", "f2", "f3"}
    /\ events = 2

\* C4 (as claimed): every patch sets lastUpdate strictly above its previous
\* value, also when two patches fall into one clock tick.
C4_LastUpdateStrictlyIncreases ==
    [][\A stateKey \in SectionKeys, data \in DataInputs :
          PatchStep(stateKey, data) => uiState'.lastUpdate > uiState.lastUpdate]_vars

\* C5: a patch to one of components, formData, appData leaves the other two
\* sections, the canvas list and the dedup-key set as they were.
C5_PatchFrame ==
    [][\A stateKey \in SectionKeys, data \in DataInputs :
          PatchStep(stateKey, data) =>
              /\ \A other \in SectionKeys \ {stateKey} :
                    other \in DOMAIN uiState' /\ uiState'[other] = uiState[other]
              /\ canvasComponents' = canvasComponents
              /\ processedResults' = processedResults]_vars

\* two sections hold data while the canvas shows an instance whose result hash
\* is recorded
C5_Witness ==
    /\ DOMAIN uiState.formData # {}
    /\ DOMAIN uiState.appData # {}
    /\ canvasComponents # <<>>
    /\ processedResults # {}

\* C6 (as claimed): a patch whose stateKey is none of components, formData,
\* appData is rejected before any mutation: the document is unchanged.
C6_InvalidSectionRejected ==
    [][\A stateKey \in StateKeys \ SectionKeys, data \in DataInputs :
          PatchStep(stateKey, data) => uiState' = uiState]_vars

\* C7: the document starts with empty components, formData and appData, and
\* no step (patch, read, admission, clearCanvas) removes a key from a section.
C7_KeysNeverRemoved ==
    /\ \A s \in SectionKeys : uiState[s] = EmptyObj
    /\ [][\A s \in SectionKeys :
             s \in DOMAIN uiState' /\ DOMAIN uiState[s] \subseteq DOMAIN uiState'[s]]_vars

\* clearCanvas has run on a document that holds keys, after an admission
C7_Witness ==
    /\ response.action = "clearCanvas"
    /\ DOMAIN uiState.formData # {}
    /\ \E tr \in ToolResults : admitCalls[tr] > 0

ReadStep ==
    \/ \E stateKey \in StateKeys \cup {""} : getUIState(stateKey)
    \/ debugUIState
    \/ getCurrentFormData

\* C8: the reads (getUIState with or without a key, getCurrentFormData,
\* debugUIState) change neither the document nor the canvas list nor the
\* dedup-key set.
C8_ReadsDoNotMutate ==
    [][ReadStep => /\ uiState' = uiState
                   /\ canvasComponents' = canvasComponents
                   /\ processedResults' = processedResults]_vars

\* a read has answered from a document that holds data, with an instance on
\* the canvas and its result hash recorded
C8_Witness ==
    /\ response.action \in {"getUIState", "debugUIState", "getCurrentFormData"}
    /\ response.value.keys # {}
    /\ canvasComponents # <<>>
    /\ processedResults # {}

(***************************************************************************)
(* Properties of the canvas.                                               *)
(***************************************************************************)
\* the results that pass JSON.parse and the schema
ValidResults == {tr \in ToolResults : "returned" \in DOMAIN ParseJsonData(tr.result)}

ComponentIdOf(tr) == ParseJsonData(tr.result).returned.v.id.v

InstancesOf(componentId) ==
    {i \in 1..Len(canvasComponents) : canvasComponents[i].componentId = componentId}

\* C9 (as claimed): an admission whose dedup key an earlier admission of the
\* session has already supplied leaves the canvas list exactly as it was, at
\* the call and when its deferred callback runs.
C9_SeenKeyIsNoOp ==
    [][/\ (\E tr \in ToolResults :
              /\ RenderToolCall(tr)
              /\ createResultHash(tr.result, tr.tool) \in processedResults)
          => canvasComponents' = canvasComponents
       /\ (TimerFires /\ Head(timers).resultHash \in processedResults)
          => canvasComponents' = canvasComponents]_vars

\* C10: a valid result admitted twice with the same dedup key has one instance
\* on the canvas, not two, however the two calls and their callbacks interleave.
C10_TwiceAdmittedOnce ==
    \A tr \in ValidResults :
        admitCalls[tr] >= 2 => Cardinality(InstancesOf(ComponentIdOf(tr))) <= 1

\* a valid result was handed to addToCanvas twice and every callback has run:
\* the canvas holds its one instance
C10_Witness ==
    \E tr \in ValidResults :
        /\ admitCalls[tr] = 2
        /\ timers = <<>>
        /\ Len(canvasComponents) = 1
        /\ Cardinality(InstancesOf(ComponentIdOf(tr))) = 1
        /\ canvasComponents[1].timestamp > StartTime

\* the admission whose callback runs next, and what its parse gives
NextAdmission == Head(timers)

NextParsed == ParseJsonData(NextAdmission.jsonData)

\* the callback runs for a result that parses, under a dedup key not yet recorded
AdmitsNew ==
    /\ timers # <<>>
    /\ TimerFires
    /\ "returned" \in DOMAIN NextParsed
    /\ NextAdmission.resultHash \notin processedResults

\* C11: when the admitted description's id is the componentId of an instance
\* on the canvas and the dedup key is new, that instance is replaced in place:
\* the list keeps its length, the instance at that position carries the new
\* description and the timestamp read by this admission, and every other
\* instance is unchanged.
C11_ReplaceInPlace ==
    [][AdmitsNew =>
         LET componentId == NextParsed.returned.v.id.v
             i           == FindIndex(canvasComponents, componentId)
         IN  i # 0 =>
               /\ Len(canvasComponents') = Len(canvasComponents)
               /\ canvasComponents'[i].componentId = componentId
               /\ canvasComponents'[i].json = NextParsed.returned
               /\ canvasComponents'[i].timestamp = now'
               /\ canvasComponents'[i].timestamp >= canvasComponents[i].timestamp
               /\ \A j \in 1..Len(canvasComponents) \ {i} :
                     canvasComponents'[j] = canvasComponents[j]]_vars

\* the first of two instances was replaced by the description of a result with
\* the same id and another dedup key
C11_Witness ==
    /\ Len(canvasComponents) = 2
    /\ canvasComponents[1].componentId = "weather-1"
    /\ canvasComponents[1].json.v.location = Str("Osaka")
    /\ canvasComponents[2].componentId = "weather-2"
    /\ timers = <<>>

\* the componentIds of the canvas, in display order
DisplayOrder(canvas) == [i \in 1..Len(canvas) |-> canvas[i].componentId]

\* C12: when the admitted description's id matches no instance and the dedup
\* key is new, the instance is appended at the end and the previous instances
\* keep their positions; and every step leaves the display order as it was,
\* empties it (clear), or extends it at the end by an id it did not hold, so
\* the display order is the order of first admission since the last clear.
C12_AppendAtEnd ==
    [][/\ AdmitsNew =>
            LET componentId == NextParsed.returned.v.id.v
            IN  FindIndex(canvasComponents, componentId) = 0 =>
                  /\ Len(canvasComponents') = Len(canvasComponents) + 1
                  /\ SubSeq(canvasComponents', 1, Len(canvasComponents)) = canvasComponents
                  /\ canvasComponents'[Len(canvasComponents')].componentId = componentId
                  /\ canvasComponents'[Len(canvasComponents')].json = NextParsed.returned
       /\ \/ DisplayOrder(canvasComponents') = DisplayOrder(canvasComponents)
          \/ canvasComponents' = <<>>
          \/ /\ Len(canvasComponents') = Len(canvasComponents) + 1
             /\ SubSeq(DisplayOrder(canvasComponents'), 1, Len(canvasComponents))
                   = DisplayOrder(canvasComponents)
             /\ \A i \in 1..Len(canvasComponents) :
                   canvasComponents[i].componentId
                     # canvasComponents'[Len(canvasComponents')].componentId]_vars

\* two results with distinct ids were admitted one after the other and stand
\* in that order
C12_Witness ==
    /\ Len(canvasComponents) = 2
    /\ canvasComponents[1].componentId = "weather-2"
    /\ canvasComponents[2].componentId = "weather-1"
    /\ canvasComponents[2].json.v.location = Str("Tokyo")
    /\ timers = <<>>

\* C13: clear (the clearCanvas action and the Clear Canvas button) empties the
\* canvas list and the dedup-key set in one step and leaves the document
\* (components, formData, appData, lastUpdate) unchanged.
C13_ClearFrame ==
    [][(clearCanvas \/ ClearCanvasButton) =>
          /\ canvasComponents' = <<>>
          /\ processedResults' = {}
          /\ uiState' = uiState]_vars

\* a clear has emptied a canvas that held an instance, its hash forgotten, on
\* a document that holds form data
C13_Witness ==
    /\ canvasComponents = <<>>
    /\ processedResults = {}
    /\ timers = <<>>
    /\ \E tr \in ValidResults : admitCalls[tr] = 1
    /\ DOMAIN uiState.formData # {}
    /\ events = 3

\* C14: fail closed: when the input of an admission fails JSON.parse or the
\* schema, the canvas list, the dedup-key set and the document are unchanged;
\* the failed result's key is not recorded.
C14_FailClosed ==
    [][(timers # <<>> /\ TimerFires /\ "thrown" \in DOMAIN NextParsed) =>
          /\ canvasComponents' = canvasComponents
          /\ processedResults' = processedResults
          /\ uiState' = uiState]_vars

\* a result that fails validation was handed over twice and both callbacks
\* have run, beside an instance and its recorded key
C14_Witness ==
    /\ \E tr \in ToolResults \ ValidResults : admitCalls[tr] = 2
    /\ timers = <<>>
    /\ Len(canvasComponents) = 1
    /\ Cardinality(processedResults) = 1

\* C15 (as claimed): parseUIComponent reports every validation failure as a
\* returned value; no call the program makes of it throws.
C15_ValidateNeverThrows ==
    [][(timers # <<>> /\ TimerFires /\ NextAdmission.jsonData.value.k # "SyntaxError") =>
          "thrown" \notin DOMAIN parseUIComponent(NextAdmission.jsonData.value)]_vars

(***************************************************************************)
(* Properties of validation, stated of the callback that validates.        *)
(***************************************************************************)
\* the callback of addToCanvas runs on this input
ValidatesInput(x) ==
    /\ timers # <<>>
    /\ NextAdmission.jsonData.value = x
    /\ TimerFires

HasUnknownType(x) ==
    /\ x.k = "object"
    /\ \/ "type" \notin DOMAIN x.v
       \/ x.v.type.k # "string"
       \/ x.v.type.v \notin VariantTypes

\* C16: validating an input whose type is absent or none of the six variants
\* fails with a validation error; no description of a default variant comes
\* out of it and nothing is placed on the canvas.
C16_UnknownTypeFails ==
    [][\A x \in Payloads :
          (HasUnknownType(x) /\ ValidatesInput(x)) =>
              /\ "thrown" \in DOMAIN parseUIComponent(x)
              /\ canvasComponents' = canvasComponents]_vars

\* the payload {type: 'bogus', id: 'x1', ..} went through its callback and the
\* canvas is empty
C16_Witness ==
    /\ admitCalls[PayloadResult(BogusPayload)] >= 1
    /\ timers = <<>>
    /\ canvasComponents = <<>>
    /\ processedResults = {}

LacksRequired(x) ==
    /\ x.k = "object"
    /\ ~HasUnknownType(x)
    /\ \/ "id" \notin DOMAIN x.v
       \/ RequiredField[x.v.type.v] \notin DOMAIN x.v

\* C17: for every variant, validating an input without id, or without the
\* variant's required field (location, data, fields, actions, sections,
\* steps), fails with a validation error.
C17_MissingRequiredFails ==
    [][\A x \in Payloads :
          (LacksRequired(x) /\ ValidatesInput(x)) =>
              /\ "thrown" \in DOMAIN parseUIComponent(x)
              /\ canvasComponents' = canvasComponents]_vars

\* a workflow without steps went through its callback twice and the canvas is
\* empty
C17_Witness ==
    /\ admitCalls[PayloadResult(Without(MinimalPayload["workflow"], "steps"))] = 2
    /\ timers = <<>>
    /\ canvasComponents = <<>>

\* C18: validation preserves identity: for every valid input the returned
\* description has the input's id (and so has the instance placed for it, and
\* what createComponent returns for it); the weather payload with id w1 and
\* location Tokyo comes back with exactly type, id and location.
C18_IdPreserved ==
    [][\A x \in Payloads :
          (ValidatesInput(x) /\ "returned" \in DOMAIN NextParsed) =>
              /\ NextParsed.returned.v.id = x.v.id
              /\ \E i \in 1..Len(canvasComponents') :
                    /\ canvasComponents'[i].componentId = x.v.id.v
                    /\ canvasComponents'[i].json.v.id = x.v.id
              /\ createComponent(x.v.type.v, x, "generated").returned.v.id = x.v.id
              /\ x = MinimalPayload["weather"] =>
                    /\ NextParsed.returned.v.id = Str("w1")
                    /\ DOMAIN NextParsed.returned.v = {"type", "id", "location"}]_vars

\* the weather payload w1 stands on the canvas under its id
C18_Witness ==
    /\ Len(canvasComponents) = 1
    /\ canvasComponents[1].componentId = "w1"
    /\ canvasComponents[1].json = MinimalPayload["weather"]
    /\ timers = <<>>

\* C19 (as claimed): validating {type: 'form', id: 'f1', fields: [{name:
\* 'email', type: 'email'}]} succeeds with fields[0].required = false and
\* submitButton.text = 'Submit' in the result.
C19_SubmitTextDefaulted ==
    [][ValidatesInput(MinimalPayload["form"]) =>
          /\ "returned" \in DOMAIN NextParsed
          /\ "required" \in DOMAIN NextParsed.returned.v.fields.v[1].v
          /\ NextParsed.returned.v.fields.v[1].v.required = Bool(FALSE)
          /\ "submitButton" \in DOMAIN NextParsed.returned.v
          /\ NextParsed.returned.v.submitButton.v.text = Str("Submit")]_vars

\* C19 (amended): validating that form succeeds with fields[0].required =
\* false and without a submitButton in the result, and the form's button then
\* reads 'Submit'; a submitButton that is given without text gets text
\* 'Submit' (and style 'primary').
C19_FormDefaults ==
    [][/\ ValidatesInput(MinimalPayload["form"]) =>
            /\ "returned" \in DOMAIN NextParsed
            /\ "required" \in DOMAIN NextParsed.returned.v.fields.v[1].v
            /\ NextParsed.returned.v.fields.v[1].v.required = Bool(FALSE)
            /\ "submitButton" \notin DOMAIN NextParsed.returned.v
            /\ SubmitButtonText(NextParsed.returned) = "Submit"
       /\ ValidatesInput(FormWithEmptySubmit) =>
            /\ "returned" \in DOMAIN NextParsed
            /\ NextParsed.returned.v.submitButton
                  = Obj([text |-> Str("Submit"), style |-> Str("primary")])
            /\ SubmitButtonText(NextParsed.returned) = "Submit"]_vars

\* the form f1 stands on the canvas, validated, without a submitButton
C19_Witness ==
    /\ Len(canvasComponents) = 1
    /\ canvasComponents[1].componentId = "f1"
    /\ "submitButton" \notin DOMAIN canvasComponents[1].json.v
    /\ timers = <<>>

\* C20: for each of the six variants V, validating the payload with the
\* required fields only returns a description with type V in which the fields
\* with a declared default hold it: chartType 'table'; variant 'default';
\* layout 'grid', gridCols 3, gap 'md'; currentStep 0, showProgress true,
\* allowSkip false (and, in the objects the payload lists, required false,
\* style 'primary', size 'md', disabled false, completed false).
C20_MinimalPayloadDefaults ==
    [][\A V \in VariantTypes :
          ValidatesInput(MinimalPayload[V]) =>
              /\ "returned" \in DOMAIN NextParsed
              /\ LET d       == NextParsed.returned.v
                     has(f, x) == f \in DOMAIN d /\ d[f] = x
                 IN  /\ d.type = Str(V)
                     /\ \A f \in DOMAIN MinimalPayload[V].v \ {"fields", "actions", "steps"} :
                           has(f, MinimalPayload[V].v[f])
                     /\ V = "dataVisualization" => has("chartType", Str("table"))
                     /\ V = "form" => d.fields.v[1].v.required = Bool(FALSE)
                     /\ V = "actionCard" =>
                           /\ has("variant", Str("default"))
                           /\ d.actions.v[1].v.style = Str("primary")
                           /\ d.actions.v[1].v.size = Str("md")
                           /\ d.actions.v[1].v.disabled = Bool(FALSE)
                     /\ V = "dashboard" =>
                           /\ has("layout", Str("grid"))
                           /\ has("gridCols", Num(3))
                           /\ has("gap", Str("md"))
                     /\ V = "workflow" =>
                           /\ has("currentStep", Num(0))
                           /\ has("showProgress", Bool(TRUE))
                           /\ has("allowSkip", Bool(FALSE))
                           /\ d.steps.v[1].v.completed = Bool(FALSE)]_vars

\* the dashboard d1 stands on the canvas with the defaults filled in
C20_Witness ==
    /\ Len(canvasComponents) = 1
    /\ canvasComponents[1].componentId = "d1"
    /\ canvasComponents[1].json.v.gridCols = Num(3)
    /\ canvasComponents[1].json.v.layout = Str("grid")
    /\ timers = <<>>

\* C21: validate is idempotent: for every input on which validation succeeds,
\* validating the serialized result (JSON.stringify, then JSON.parse) succeeds
\* again and returns a description equal to the first one.
C21_ValidateIdempotent ==
    [][\A x \in Payloads :
          (ValidatesInput(x) /\ "returned" \in DOMAIN NextParsed) =>
              parseUIComponent(JsonStringifyParse(NextParsed.returned)) = NextParsed]_vars

\* a dashboard given with an unknown key stands on the canvas without it and
\* with the defaults filled in
C21_Witness ==
    /\ Len(canvasComponents) = 1
    /\ canvasComponents[1].componentId = "d2"
    /\ "theme" \notin DOMAIN canvasComponents[1].json.v
    /\ canvasComponents[1].json.v.gap = Str("md")
    /\ canvasComponents[1].json # DashboardWith(12, 12, 6, MinimalPayload["weather"])
    /\ canvasComponents[1].json.v.gridCols = Num(12)

\* gridCols in 1..12, and in every section that has a span cols in 1..12 and
\* rows in 1..6
WithinBounds(d) ==
    d.v.type = Str("dashboard") =>
        /\ "gridCols" \in DOMAIN d.v
        /\ d.v.gridCols.v \in 1..12
        /\ \A i \in 1..Len(d.v.sections.v) :
              LET section == d.v.sections.v[i].v
              IN  "span" \in DOMAIN section =>
                      /\ "cols" \in DOMAIN section.span.v /\ section.span.v.cols.v \in 1..12
                      /\ "rows" \in DOMAIN section.span.v /\ section.span.v.rows.v \in 1..6

\* C22: numeric bounds hold for every description validation accepts: what
\* a callback's validation returns, and every description on the canvas, has
\* gridCols in 1..12 and spans with cols in 1..12 and rows in 1..6; an input
\* with a value outside its range yields no accepted description.
C22_NumericBounds ==
    [][(timers # <<>> /\ TimerFires) =>
          /\ "returned" \in DOMAIN NextParsed => WithinBounds(NextParsed.returned)
          /\ \A i \in 1..Len(canvasComponents') : WithinBounds(canvasComponents'[i].json)
          /\ \A x \in BoundsPayloads :
                (NextAdmission.jsonData.value = x /\ ~WithinBounds(x)) =>
                    /\ "thrown" \in DOMAIN NextParsed
                    /\ canvasComponents' = canvasComponents]_vars

\* the dashboard with gridCols 12 and a span of 12 by 6 stands on the canvas
C22_Witness ==
    /\ Len(canvasComponents) = 1
    /\ canvasComponents[1].json.v.type = Str("dashboard")
    /\ canvasComponents[1].json.v.gridCols = Num(12)
    /\ canvasComponents[1].json.v.sections.v[1].v.span = Obj([cols |-> Num(12), rows |-> Num(6)])
    /\ timers = <<>>

\* the validated composite holds, in its first section or step, the child as
\* its own validation returns it
ChildPreserved(parsed, list, child) ==
    /\ "returned" \in DOMAIN parsed
    /\ "component" \in DOMAIN parsed.returned.v[list].v[1].v
    /\ parsed.returned.v[list].v[1].v.component = parseUIComponent(child).returned

\* C23 (as claimed): for each of weather, dataVisualization, form and
\* actionCard, a dashboard whose section embeds a valid description of that
\* variant, and a workflow whose step embeds it, validates and the child is
\* preserved in the result.
C23_AnyLeafEmbeds ==
    [][\A V \in LeafVariants :
          /\ ValidatesInput(DashboardWith(3, 2, 2, MinimalPayload[V])) =>
                ChildPreserved(NextParsed, "sections", MinimalPayload[V])
          /\ ValidatesInput(WorkflowWithChild(MinimalPayload[V])) =>
                ChildPreserved(NextParsed, "steps", MinimalPayload[V])]_vars

\* C23 (amended): a dashboard section may embed any of weather,
\* dataVisualization, form and actionCard, and a workflow step a form or an
\* actionCard: the composite validates and the child is preserved; a workflow
\* whose step embeds a weather or a dataVisualization fails validation.
C23_LeafEmbedsPerComposite ==
    [][\A V \in LeafVariants :
          /\ ValidatesInput(DashboardWith(3, 2, 2, MinimalPayload[V])) =>
                ChildPreserved(NextParsed, "sections", MinimalPayload[V])
          /\ ValidatesInput(WorkflowWithChild(MinimalPayload[V])) =>
                IF V \in {"form", "actionCard"}
                THEN ChildPreserved(NextParsed, "steps", MinimalPayload[V])
                ELSE /\ "thrown" \in DOMAIN NextParsed
                     /\ canvasComponents' = canvasComponents]_vars

\* the workflow whose first step embeds an action card stands on the canvas
C23_Witness ==
    /\ Len(canvasComponents) = 1
    /\ canvasComponents[1].componentId = "wf2"
    /\ canvasComponents[1].json.v.steps.v[1].v.component.v.type = Str("actionCard")
    /\ canvasComponents[1].json.v.steps.v[1].v.component.v.variant = Str("default")
    /\ timers = <<>>

\* C30 (as claimed): every result a component tool of the agent returns for
\* arguments its schema accepts is accepted by parseUIComponent, so its
\* callback leaves an instance of it on the canvas.
C30_AgentResultsAccepted ==
    [][\A tr \in AgentResults :
          (timers # <<>> /\ NextAdmission.jsonData = tr.result /\ TimerFires) =>
              /\ "returned" \in DOMAIN NextParsed
              /\ \E i \in 1..Len(canvasComponents') :
                    canvasComponents'[i].componentId = tr.result.value.v.id.v]_vars

(***************************************************************************)
(* Further properties of the canvas.                                       *)
(***************************************************************************)
\* C26 (as claimed): dedup suppresses only repeated emissions of the same
\* result: a valid result handed over for the first time is never dropped at
\* the dedup check, also when another result of the same tool was admitted.
C26_DistinctResultsDistinctKeys ==
    [][\A tr \in ValidResults :
          (RenderToolCall(tr) /\ admitCalls[tr] = 0) =>
              timers' = Append(timers, [jsonData   |-> tr.result,
                                        resultHash |-> createResultHash(tr.result, tr.tool)])]_vars

\* C27: no two instances on the canvas have the same componentId, and every
\* instance holds a description that validation returned for a result, under
\* that description's id.
C27_CanvasUnique ==
    /\ \A i, j \in 1..Len(canvasComponents) :
          i # j => canvasComponents[i].componentId # canvasComponents[j].componentId
    /\ \A i \in 1..Len(canvasComponents) :
          /\ \E tr \in ValidResults :
                canvasComponents[i].json = ParseJsonData(tr.result).returned
          /\ canvasComponents[i].componentId = canvasComponents[i].json.v.id.v

\* two results with one id were admitted under different dedup keys and the
\* canvas holds one instance, with the later description
C27_Witness ==
    /\ Len(canvasComponents) = 1
    /\ canvasComponents[1].componentId = "weather-1"
    /\ canvasComponents[1].json.v.location = Str("Osaka")
    /\ admitCalls[WeatherResult("weather-1", "Tokyo")] = 1
    /\ processedResults = {<<"getWeather", "{\"id\":\"weather-">>, <<"getWeather", "{\"type\":\"weathe">>}
    /\ timers = <<>>

\* C28: an admission requested before a clear does not show after it.  When the
\* canvas was last cleared while a callback of addToCanvas was pending, and
\* addToCanvas was not called since, then once no callback is pending the canvas
\* list and the set of result hashes are both empty.
C28_ClearedStaysEmpty ==
    (clearedWhilePending /\ timers = <<>>) =>
        (canvasComponents = <<>> /\ processedResults = {})

(***************************************************************************)
(* Properties of the mounted components.                                   *)
(***************************************************************************)
\* the forms and the workflows that are mounted
FormSlots == {slot \in DOMAIN local : "formData" \in DOMAIN local[slot]}

WorkflowSlots == {slot \in DOMAIN local : "currentStep" \in DOMAIN local[slot]}

\* the id of the description in a slot
IdAt(slot) == ComponentAt(slot).v.id.v

\* C24: concurrent edits are not lost.  When the user edits field b of a form
\* shown on the canvas, every other field the document holds under the form's
\* id, such as a field a the agent wrote with updateUIState while the form was
\* shown, is still there with its value, together with the user's value for b.
C24_ConcurrentEditsKept ==
    [][\A slot \in FormSlots, b \in {"name", "email"}, value \in UserInputs :
          (handleInputChange(slot, b, value) /\ IdAt(slot) \in DOMAIN uiState.formData) =>
              /\ IdAt(slot) \in DOMAIN uiState'.formData
              /\ \A a \in DOMAIN uiState.formData[IdAt(slot)] \ {b} :
                    /\ a \in DOMAIN uiState'.formData[IdAt(slot)]
                    /\ uiState'.formData[IdAt(slot)][a] = uiState.formData[IdAt(slot)][a]
              /\ HandedOnStateUpdate(slot) =>
                    /\ b \in DOMAIN uiState'.formData[IdAt(slot)]
                    /\ uiState'.formData[IdAt(slot)][b] = value]_vars

\* C25: every rendered form writes its edits to the document.  A user edit of
\* field n to value v in a form with id f leaves formData[f][n] = v, whether the
\* form is a canvas instance, the component of a workflow step or the component
\* of a dashboard section.
C25_EveryFormWrites ==
    [][\A slot \in FormSlots, n \in {"name", "email"}, v \in UserInputs :
          handleInputChange(slot, n, v) =>
              /\ IdAt(slot) \in DOMAIN uiState'.formData
              /\ n \in DOMAIN uiState'.formData[IdAt(slot)]
              /\ uiState'.formData[IdAt(slot)][n] = v]_vars

\* the step a workflow shows is one of its steps
StepInRange(slot) ==
    /\ local[slot].currentStep.k = "number"
    /\ local[slot].currentStep.v \in 0..(StepCount(slot) - 1)

\* C29: workflow step bounds.  For a mounted workflow whose step is one of its
\* steps, a call of nextStep or prevStep leaves the step among its steps, moves
\* it by exactly one (up for nextStep, down for prevStep), and writes
\* components[id] with currentStep the new step and completedSteps 0..new step.
C29_WorkflowStepBounds ==
    [][\A slot \in WorkflowSlots :
          (StepInRange(slot) /\ (nextStep(slot) \/ prevStep(slot))) =>
              LET old   == local[slot].currentStep.v
                  new   == local'[slot].currentStep
                  saved == uiState'.components[IdAt(slot)]
              IN  /\ slot \in DOMAIN local'
                  /\ new.k = "number"
                  /\ new.v \in 0..(StepCount(slot) - 1)
                  /\ nextStep(slot) => new.v = old + 1
                  /\ prevStep(slot) => new.v = old - 1
                  /\ IdAt(slot) \in DOMAIN uiState'.components
                  /\ saved.currentStep = new.v
                  /\ Len(saved.completedSteps) = new.v + 1
                  /\ \A i \in 1..Len(saved.completedSteps) : saved.completedSteps[i] = i - 1]_vars

\* a workflow of two steps shows its last step, nextStep having written the
\* progress, and Next is disabled
C29_Witness ==
    \E slot \in WorkflowSlots :
        /\ StepCount(slot) = 2
        /\ local[slot].currentStep = Num(1)
        /\ IdAt(slot) \in DOMAIN uiState.components
        /\ "completedSteps" \in DOMAIN uiState.components[IdAt(slot)]
        /\ uiState.components[IdAt(slot)].completedSteps = <<0, 1>>
        /\ ~ENABLED nextStep(slot)

====
